---- MODULE Spec2Model ----
(***************************************************************************)
(* Resource x Time grid of masterfit-frontend (src/unnamed/part_000, the   *)
(* latest revision of main.js): the module-level state, the load pipeline, *)
(* the renderer, the slot click handler and the register / update modals.  *)
(*                                                                         *)
(* Encoding.  Slot objects are JavaScript objects with identity: they live *)
(* in `heap` (object id -> fields) and slotsMap, the rendered grid, the    *)
(* modal context and the view modal hold object ids.  A field that is      *)
(* null / undefined / absent is 0 (ids, Register_Id, Resource_Id) or ""    *)
(* (strings), which is also how the code's truthiness tests read it.       *)
(* A value that may be null is a sequence of length 0 or 1.                *)
(* A timestamp is [d, h, m, s]: date, hour, minute, second.                *)
(* The register/update modal and the view modal are modal dialogs: while   *)
(* one is visible only its own buttons are clicked.                        *)
(***************************************************************************)
EXTENDS Integers, Sequences, FiniteSets, Bags

VARIABLES
    RESPECT_SERVER_REGISTERED, \* CONFIG.RESPECT_SERVER_REGISTERED
    MODE,            \* 'live' | 'mock' (in memory)
    storedMode,      \* localStorage 'mode'
    resources,       \* sequence of resource IDs
    slotsMap,        \* resource ID -> sequence of slot objects (ids)
    heap,            \* slot object id -> fields
    registeredSlot,  \* <<>> or <<[Appoitment_Id, Resource_Id, TimeFrom, TimeTo]>>
    modalContext,    \* <<>> or <<[mode, old, slot, resource, customerId]>>
    view,            \* view modal: <<>> or <<[editable, obj, shown, ctx]>>; shown is
                     \* <<>> for "No details", else <<the Appointment No shown>>
    datePicker,      \* $('#datePicker').value
    gridCells,       \* slot elements of #gridBody: [res, row, obj, cls]
    gridHidden,      \* $('#gridWrap').hidden (and #noData shown)
    loads,           \* calls of loadAndRender that have not finished; `acted`
                     \* records that the user registered or updated during it
    nLoads,          \* calls of loadAndRender so far
    posts,           \* mutation requests in flight
    nPost,           \* mutation requests issued so far
    details,         \* slot fetches of fetchAppointmentDetails in flight (a set:
                     \* any number of equal requests may be in flight)
    alert,           \* what the last handler surfaced with alert(), in parts
    faults,          \* how many reads the network may still fail
    nFailed          \* how many reads have failed

vars == <<RESPECT_SERVER_REGISTERED, MODE, storedMode, resources, slotsMap, heap,
          registeredSlot, modalContext, view, datePicker, gridCells, gridHidden,
          loads, nLoads, posts, nPost, details, alert, faults, nFailed>>

(* ---------------- bounds ---------------- *)
MaxLoads == 2      \* loads whose responses arrive (the initial one counts); a
                   \* user action starts no load beyond them, and none while a
                   \* read may still fail
MaxPosts == 1      \* mutation requests issued; a read that has failed counts
                   \* as one
MaxFaults == 1     \* reads that fail or answer no slot array, where reads fail
MaxRepeat == 1     \* mutation requests issued beyond MaxPosts, where no read
                   \* fails; the session is followed up to the first of them

(* ---------------- CONFIG ---------------- *)
CUSTOMER_ID == 1
SLOT_MIN_TIME == 8
SLOT_MAX_TIME == 17
SLOT_DURATION_MIN == 30

\* dates: 1 is 2025-11-03, the date of the fixture; 2 is the day after
Dates == {1, 2}
Today == 1
OtherCustomer == CUSTOMER_ID + 1

(* ---------------- data ---------------- *)
T(d, h, m) == [d |-> d, h |-> h, m |-> m, s |-> 0]

Raw(id, d, h, st, label, reg, resId) ==
    [Appoitment_Id |-> id, Resource_Id |-> resId, TimeFrom |-> T(d, h, 0),
     TimeTo |-> T(d, h, 30), Status |-> st, Description_En |-> label,
     Description_Ar |-> "", Notes |-> "", Register_Id |-> reg]

MOCK_resources == <<1, 2, 3, 4>>

MOCK_slots(customerId, dateStr, resourceId) ==
    IF customerId = 1 /\ dateStr = 1 /\ resourceId = 1
    THEN << Raw(7909, 1, 9, 1, "Available", 0, 0),
            Raw(7910, 1, 10, 2, "Available", 0, 0) >>
    ELSE IF customerId = 1 /\ dateStr = 1 /\ resourceId = 2
    THEN << Raw(7920, 1, 9, 1, "Available", 0, 0),
            Raw(7921, 1, 11, 1, "Available", CUSTOMER_ID, 0) >>
    ELSE << >>

\* What the live endpoints answer: the resource list, and per (date, resource)
\* a slot list: an available slot, a booked slot of somebody else, slots
\* without appointment id (one the session customer's, one nobody's), and
\* slots the server reports as the session customer's.
ServerResources == <<1, 2>>

ServerSlots(dateStr, resourceId) ==
    IF dateStr = 1 /\ resourceId = 1
    THEN << Raw(101, 1, 9, 1, "Available", CUSTOMER_ID, 1),
            Raw(102, 1, 10, 2, "Booked", OtherCustomer, 1) >>
    ELSE IF dateStr = 1 /\ resourceId = 2
    THEN << Raw(0, 1, 9, 1, "Available", CUSTOMER_ID, 0) >>
    ELSE IF dateStr = 2 /\ resourceId = 1
    THEN << Raw(201, 2, 9, 1, "Available", 0, 1) >>
    ELSE IF dateStr = 2 /\ resourceId = 2
    THEN << Raw(0, 2, 9, 1, "Available", CUSTOMER_ID, 0),
            Raw(0, 2, 10, 1, "Available", 0, 0) >>
    ELSE << >>

(* ---------------- helpers ---------------- *)
SeqToSet(s) == {s[i] : i \in 1..Len(s)}

\* Array.prototype.find: index of the first element satisfying P, 0 if none
FindIndex(s, P(_)) ==
    LET I == {i \in 1..Len(s) : P(s[i])}
    IN IF I = {} THEN 0 ELSE CHOOSE i \in I : \A j \in I : i <= j

\* slotsMap[String(id)] || []
SlotsOf(sm, r) == IF r \in DOMAIN sm THEN sm[r] ELSE << >>

RECURSIVE MinuteLoop(_, _, _, _)
MinuteLoop(d, h, mins, step) ==
    IF mins < 60
    THEN <<[d |-> d, h |-> h, m |-> mins, s |-> 0]>> \o MinuteLoop(d, h, mins + step, step)
    ELSE << >>

RECURSIVE HourLoop(_, _, _, _)
HourLoop(d, h, maxH, step) ==
    IF h <= maxH
    THEN MinuteLoop(d, h, 0, step) \o HourLoop(d, h + 1, maxH, step)
    ELSE << >>

generateRowTimes(dateStr) ==
    HourLoop(dateStr, SLOT_MIN_TIME, SLOT_MAX_TIME, SLOT_DURATION_MIN)

\* the rows of each date's grid
RowTimes == [d \in Dates |-> generateRowTimes(d)]

\* a comparison that also looks at the seconds
SameMinute_WithSeconds(a, b) == a.d = b.d /\ a.h = b.h /\ a.m = b.m /\ a.s = b.s

\* the renderer's comparison "by minute"
SameMinute(a, b) == a.d = b.d /\ a.h = b.h /\ a.m = b.m

\* /available/i.test(label)
LabelAvailable(label) == label \in {"Available", "available", "AVAILABLE"}

(* ---------------- renderer ---------------- *)
\* an isRegistered that only asks whether there is a registration
RenderIsRegistered_AnyTracker(s, reg, trust) == reg # << >>

\* renderGrid's isRegistered without the CONFIG.RESPECT_SERVER_REGISTERED test
RenderIsRegistered_AlwaysTrust(s, reg, trust) ==
    \/ reg # << >> /\ reg[1].Appoitment_Id # 0 /\ reg[1].Appoitment_Id = s.Appoitment_Id
    \/ s.Register_Id # 0 /\ s.Register_Id = CUSTOMER_ID

\* renderGrid's isRegistered
RenderIsRegistered(s, reg, trust) ==
    \/ reg # << >> /\ reg[1].Appoitment_Id # 0 /\ reg[1].Appoitment_Id = s.Appoitment_Id
    \/ trust /\ s.Register_Id # 0 /\ s.Register_Id = CUSTOMER_ID

\* a classification that tests availability before registration
Classify_AvailableFirst(s, reg, trust) ==
    IF s.Status = 1 \/ LabelAvailable(s.Description_En) THEN "available"
    ELSE IF RenderIsRegistered(s, reg, trust) THEN "registered"
    ELSE "booked"

\* renderGrid: the class of the slot element
Classify(s, reg, trust) ==
    IF RenderIsRegistered(s, reg, trust) THEN "registered"
    ELSE IF s.Status = 1 \/ LabelAvailable(s.Description_En) THEN "available"
    ELSE "booked"

\* the slot elements renderGrid appends, one per (row, resource) with a match
RenderCells(dateStr, res, sm, h, reg, trust) ==
    LET rows == RowTimes[dateStr]
        Match(r, dt) ==
            LET Hit(o) == SameMinute(h[o].TimeFrom, dt)
            IN FindIndex(SlotsOf(sm, r), Hit)
        Cell(r, dt, i) ==
            [res |-> r, row |-> dt, obj |-> SlotsOf(sm, r)[i],
             cls |-> Classify(h[SlotsOf(sm, r)[i]], reg, trust)]
    IN UNION { IF Len(SlotsOf(sm, r)) = 0 THEN {}
               ELSE { Cell(r, rows[k], Match(r, rows[k])) :
                        k \in { n \in 1..Len(rows) : Match(r, rows[n]) # 0 } } :
               r \in SeqToSet(res) }

\* a renderGrid without the branch for an empty resource list
renderGrid_NoEmptyState(dateStr, res, sm, h, reg, trust) ==
    [cells |-> RenderCells(dateStr, res, sm, h, reg, trust), hidden |-> FALSE]

\* renderGrid(dateStr): [cells, hidden]
renderGrid(dateStr, res, sm, h, reg, trust) ==
    IF Len(res) = 0
    THEN [cells |-> {}, hidden |-> TRUE]
    ELSE [cells |-> RenderCells(dateStr, res, sm, h, reg, trust), hidden |-> FALSE]

(* ---------------- initial state ---------------- *)
\* DOMContentLoaded has run: the date picker holds today and the initial load
\* (loadBtn.click()) is waiting for the resources response.
NewLoad(n, dateStr) ==
    [id |-> n, date |-> dateStr, phase |-> "resources", pending |-> {}, settled |-> FALSE,
     acted |-> FALSE, reload |-> FALSE]

InitWith(trust, f) ==
    /\ RESPECT_SERVER_REGISTERED = trust
    /\ faults = f
    /\ nFailed = 0
    /\ storedMode = ""
    /\ MODE = "live"
    /\ resources = << >>
    /\ slotsMap = << >>
    /\ heap = << >>
    /\ registeredSlot = << >>
    /\ modalContext = << >>
    /\ view = << >>
    /\ datePicker = Today
    /\ gridCells = {}
    /\ gridHidden = FALSE
    /\ loads = {NewLoad(1, datePicker)}
    /\ nLoads = 1
    /\ posts = << >>
    /\ nPost = 0
    /\ details = {}
    /\ alert = << >>

\* CONFIG as shipped: RESPECT_SERVER_REGISTERED: false
Init == InitWith(FALSE, 0)

\* CONFIG edited to respect the server's Register_Id
InitTrust == InitWith(TRUE, 0)

\* CONFIG as shipped, on a network whose reads may fail
InitReads == InitWith(FALSE, MaxFaults)

(* ---------------- object lifetime ---------------- *)
\* the slot objects still referenced from the program's state or the DOM
Refs(sm, cells, mc, v, ps) ==
    UNION { SeqToSet(sm[r]) : r \in DOMAIN sm }
      \cup { c.obj : c \in cells }
      \cup { mc[i].slot : i \in 1..Len(mc) }
      \cup { v[i].obj : i \in 1..Len(v) }
      \cup { ps[i].obj : i \in 1..Len(ps) }

Collect(h, refs) == [o \in (DOMAIN h) \cap refs |-> h[o]]

\* a modal dialog is on screen
ModalVisible == modalContext # << >> \/ view # << >>

(* ---------------- loading ---------------- *)
\* the answers of a read that count as a failure of the network or the server
Faulty(outcome) == outcome \in {"fail", "fallback", "malformed"}

\* the calls in flight when handleModalConfirm or onUpdated sets registeredSlot
Acted(ls) == { [L EXCEPT !.acted = TRUE, !.reload = FALSE] : L \in ls }

\* the call gridLoaderCaller starts in the success branch of a submit, whose
\* onUpdated callback runs right after: `reload` marks it until the user
\* registers or updates again
Reload(n, dateStr) == [NewLoad(n, dateStr) EXCEPT !.acted = TRUE, !.reload = TRUE]

\* a start of a load that abandons the calls still in flight
StartLoad_Cancels(dateStr) ==
    /\ MODE' = "live"
    /\ loads' = {NewLoad(nLoads + 1, dateStr)}
    /\ nLoads' = nLoads + 1

\* loadAndRender up to its first await: fetchResources -> apiGet sets MODE and
\* waits for the response
StartLoad(dateStr) ==
    /\ MODE' = "live"
    /\ loads' = loads \cup {NewLoad(nLoads + 1, dateStr)}
    /\ nLoads' = nLoads + 1

\* #loadBtn click
LoadButton ==
    /\ ~ModalVisible
    /\ nLoads + faults < MaxLoads
    /\ StartLoad(datePicker)
    /\ alert' = << >>
    /\ UNCHANGED <<RESPECT_SERVER_REGISTERED, faults, nFailed, storedMode, resources, slotsMap, heap,
                   registeredSlot, modalContext, view, datePicker, gridCells,
                   gridHidden, posts, nPost, details>>

\* #datePicker change, #prevDateBtn, #nextDateBtn: gridLoaderCaller()
DateNav(d) ==
    /\ ~ModalVisible
    /\ nLoads + faults < MaxLoads
    /\ d # datePicker
    /\ datePicker' = d
    /\ StartLoad(d)
    /\ alert' = << >>
    /\ UNCHANGED <<RESPECT_SERVER_REGISTERED, faults, nFailed, storedMode, resources, slotsMap, heap,
                   registeredSlot, modalContext, view, gridCells,
                   gridHidden, posts, nPost, details>>

\* the slot objects a fetch callback of load n creates for resource r:
\* (arr || []).map(s => ({ ...s, ResourceName }))
NewObjs(n, r, arr) == [i \in 1..Len(arr) |-> n * 100 + r * 10 + i]

\* the load whose callback created slot object o
LoadOf(o) == o \div 100

Alloc(h, n, r, arr) ==
    LET ids == NewObjs(n, r, arr)
    IN [o \in (DOMAIN h) \cup SeqToSet(ids) |->
          IF o \in SeqToSet(ids)
          THEN LET i == CHOOSE k \in 1..Len(ids) : ids[k] = o
               IN [Appoitment_Id |-> arr[i].Appoitment_Id, Resource_Id |-> arr[i].Resource_Id,
                   TimeFrom |-> arr[i].TimeFrom, TimeTo |-> arr[i].TimeTo,
                   Status |-> arr[i].Status, Description_En |-> arr[i].Description_En,
                   Description_Ar |-> arr[i].Description_Ar, Notes |-> arr[i].Notes,
                   Register_Id |-> arr[i].Register_Id, ResourceName |-> r]
          ELSE h[o]]

\* slotsMap[String(r.ID)] = ...
PutSlots(sm, r, ids) ==
    [k \in (DOMAIN sm) \cup {r} |-> IF k = r THEN ids ELSE sm[k]]

\* the forEach of loadAndRender that seeds registeredSlot from Register_Id
RECURSIVE SeedFrom(_, _, _, _, _)
SeedFrom(reg, arr, i, r, customerId) ==
    IF i > Len(arr) THEN reg
    ELSE SeedFrom(IF arr[i].Register_Id # 0 /\ arr[i].Register_Id = customerId
                  THEN <<[Appoitment_Id |-> arr[i].Appoitment_Id, Resource_Id |-> r,
                          TimeFrom |-> arr[i].TimeFrom, TimeTo |-> arr[i].TimeTo]>>
                  ELSE reg,
                  arr, i + 1, r, customerId)

\* fetchResources: the list it returns
ResourcesData(outcome) ==
    IF outcome = "ok" THEN ServerResources
    ELSE IF outcome = "empty" THEN << >>
    ELSE MOCK_resources

\* a fetchResources whose catch block answers an empty list and leaves the
\* mode flag alone
fetchResources_NoFallback(outcome, mode, stored) ==
    [data |-> IF outcome = "ok" THEN ServerResources ELSE << >>,
     MODE |-> mode, stored |-> stored]

\* fetchResources: what it returns, and MODE and localStorage's 'mode' when it
\* returns
fetchResources(outcome, mode, stored) ==
    IF outcome = "fail"
    THEN [data |-> ResourcesData(outcome), MODE |-> "mock", stored |-> "mock"]
    ELSE [data |-> ResourcesData(outcome), MODE |-> mode, stored |-> stored]

\* loadAndRender resumes with the resources: from `resources = await ...` to
\* the fan-out of the slot fetches (or the early return on an empty list).
\* A load started beyond MaxLoads stays unanswered.
ResourcesResponse(L, outcome) ==
    /\ L \in loads
    /\ L.phase = "resources"
    /\ L.id <= MaxLoads
    /\ Faulty(outcome) => faults > 0
    /\ faults' = IF Faulty(outcome) THEN faults - 1 ELSE faults
    /\ nFailed' = IF Faulty(outcome) THEN nFailed + 1 ELSE nFailed
    /\ LET f == fetchResources(outcome, MODE, storedMode)
           data == f.data
       IN /\ resources' = data
          /\ storedMode' = f.stored
          /\ IF Len(data) = 0
             THEN /\ MODE' = f.MODE
                  /\ gridHidden' = TRUE
                  /\ loads' = loads \ {L}
                  /\ UNCHANGED <<registeredSlot, slotsMap>>
             ELSE /\ MODE' = "live"
                  /\ registeredSlot' = << >>
                  /\ slotsMap' = << >>
                  /\ gridHidden' = gridHidden
                  /\ loads' = (loads \ {L}) \cup
                        {[L EXCEPT !.phase = "slots", !.pending = SeqToSet(data)]}
    /\ alert' = << >>
    /\ heap' = Collect(heap, Refs(slotsMap', gridCells, modalContext, view, posts))
    /\ UNCHANGED <<RESPECT_SERVER_REGISTERED, modalContext, view, datePicker, gridCells,
                   nLoads, posts, nPost, details>>

\* fetchSlotsForResource: the value the callback receives
SlotsData(outcome, customerId, dateStr, r) ==
    IF outcome = "ok" THEN ServerSlots(dateStr, r)
    ELSE MOCK_slots(customerId, dateStr, r)

\* a fetchSlotsForResource whose fallback looks the fixture up without the date
fetchSlotsForResource_AnyDate(outcome, customerId, dateStr, r, mode, stored) ==
    IF outcome = "fallback"
    THEN [data |-> MOCK_slots(customerId, Today, r), MODE |-> "mock", stored |-> "mock"]
    ELSE [data |-> SlotsData(outcome, customerId, dateStr, r), MODE |-> mode,
          stored |-> stored]

\* fetchSlotsForResource: what it returns, and MODE and localStorage's 'mode'
\* when it returns
fetchSlotsForResource(outcome, customerId, dateStr, r, mode, stored) ==
    IF outcome = "fallback"
    THEN [data |-> MOCK_slots(customerId, dateStr, r), MODE |-> "mock", stored |-> "mock"]
    ELSE [data |-> SlotsData(outcome, customerId, dateStr, r), MODE |-> mode,
          stored |-> stored]

\* a callback whose `(arr || []).map` accepts whatever it is given
MapThrows_Never(outcome) == FALSE

\* (arr || []).map(...) throws: arr is an object that has no map
MapThrows(outcome) == outcome = "malformed"

\* one fetch of the fan-out completes; with the last one Promise.all resolves
\* and loadAndRender renders.  "malformed": the response is an object that is
\* no array and no {result:'failed'}, so arr.map throws and Promise.all rejects.
SlotsResponse(L, r, outcome) ==
    /\ L \in loads
    /\ L.phase = "slots"
    /\ r \in L.pending
    /\ Faulty(outcome) => faults > 0
    /\ faults' = IF Faulty(outcome) THEN faults - 1 ELSE faults
    /\ nFailed' = IF Faulty(outcome) THEN nFailed + 1 ELSE nFailed
    /\ LET f == fetchSlotsForResource(outcome, CUSTOMER_ID, L.date, r, MODE, storedMode)
           arr == f.data
           thrown == MapThrows(outcome)
           h1 == IF thrown THEN heap ELSE Alloc(heap, L.id, r, arr)
           sm1 == IF thrown THEN slotsMap ELSE PutSlots(slotsMap, r, NewObjs(L.id, r, arr))
           reg1 == IF ~thrown /\ RESPECT_SERVER_REGISTERED
                   THEN SeedFrom(registeredSlot, arr, 1, r, CUSTOMER_ID)
                   ELSE registeredSlot
           left == L.pending \ {r}
           joined == ~thrown /\ left = {} /\ ~L.settled
           failed == thrown /\ ~L.settled
           g == renderGrid(L.date, resources, sm1, h1, reg1, RESPECT_SERVER_REGISTERED)
       IN /\ MODE' = f.MODE
          /\ storedMode' = f.stored
          /\ slotsMap' = sm1
          /\ registeredSlot' = reg1
          /\ gridCells' = IF joined THEN g.cells ELSE gridCells
          /\ gridHidden' = IF joined THEN g.hidden ELSE IF failed THEN TRUE ELSE gridHidden
          /\ loads' = (loads \ {L}) \cup
                (IF left = {} THEN {}
                 ELSE {[L EXCEPT !.pending = left, !.settled = L.settled \/ thrown]})
          /\ heap' = Collect(h1, Refs(slotsMap', gridCells', modalContext, view, posts))
    /\ alert' = << >>
    /\ UNCHANGED <<RESPECT_SERVER_REGISTERED, resources, modalContext, view, datePicker,
                   nLoads, posts, nPost, details>>

(* ---------------- slot click ---------------- *)
\* onSlotClick's test with the RESPECT_SERVER_REGISTERED disjunct left out
ClickIsRegistered_TrackerOnly(s, reg, trust) ==
    reg # << >> /\ reg[1].Appoitment_Id = s.Appoitment_Id

\* onSlotClick's isRegistered
ClickIsRegistered(s, reg, trust) ==
    \/ reg # << >> /\ reg[1].Appoitment_Id = s.Appoitment_Id
    \/ trust /\ s.Register_Id # 0 /\ s.Register_Id = CUSTOMER_ID

\* onSlotClick without its third branch: every click that is not on an own slot
\* opens the register dialog
onSlotClick_AlwaysRegister(o, s, resource, reg, trust) ==
    IF ClickIsRegistered(s, reg, trust) THEN << >>
    ELSE <<[mode |-> "register", old |-> << >>, slot |-> o, resource |-> resource,
            customerId |-> CUSTOMER_ID]>>

\* a click handler that opens a dialog for available slots only
onSlotClick_AvailableOnly(o, s, resource, reg, trust) ==
    IF ClickIsRegistered(s, reg, trust) THEN << >>
    ELSE IF ~(s.Status = 1 \/ LabelAvailable(s.Description_En)) THEN << >>
    ELSE IF reg = << >>
    THEN <<[mode |-> "register", old |-> << >>, slot |-> o, resource |-> resource,
            customerId |-> CUSTOMER_ID]>>
    ELSE <<[mode |-> "update", old |-> reg, slot |-> o, resource |-> resource,
            customerId |-> CUSTOMER_ID]>>

\* the modal context onSlotClick opens, << >> when it only alerts
onSlotClick(o, s, resource, reg, trust) ==
    IF ClickIsRegistered(s, reg, trust) THEN << >>
    ELSE IF reg = << >>
    THEN <<[mode |-> "register", old |-> << >>, slot |-> o, resource |-> resource,
            customerId |-> CUSTOMER_ID]>>
    ELSE <<[mode |-> "update", old |-> reg, slot |-> o, resource |-> resource,
            customerId |-> CUSTOMER_ID]>>

\* a click on a slot element of the rendered grid
SlotClick(c) ==
    /\ ~ModalVisible
    /\ ~gridHidden
    /\ c \in gridCells
    /\ LET mc == onSlotClick(c.obj, heap[c.obj], c.res, registeredSlot,
                             RESPECT_SERVER_REGISTERED)
       IN /\ modalContext' = mc
          /\ alert' = IF mc = << >> THEN <<"This slot is already registered for you.">>
                      ELSE << >>
    /\ UNCHANGED <<RESPECT_SERVER_REGISTERED, faults, nFailed, MODE, storedMode, resources, slotsMap, heap,
                   registeredSlot, view, datePicker, gridCells, gridHidden, loads,
                   nLoads, posts, nPost, details>>

(* ---------------- register / update modal ---------------- *)
\* the buttons of #modal can be clicked
ModalButtons(mode) ==
    /\ modalContext # << >>
    /\ view = << >>
    /\ modalContext[1].mode = mode

\* openViewModal(slotObj, options)
openViewModal(o, h, editable, ctx) ==
    <<[editable |-> editable, obj |-> o,
       shown |-> IF o \in DOMAIN h THEN <<h[o].Appoitment_Id>> ELSE << >>,
       ctx |-> IF editable THEN <<ctx>> ELSE << >>]>>

\* a closeModal that also forgets the session's registration
closeModal_Unregister ==
    /\ modalContext # << >>
    /\ view = << >>
    /\ modalContext' = << >>
    /\ registeredSlot' = << >>
    /\ alert' = << >>
    /\ heap' = Collect(heap, Refs(slotsMap, gridCells, modalContext', view, posts))
    /\ UNCHANGED <<RESPECT_SERVER_REGISTERED, faults, nFailed, MODE, storedMode, resources, slotsMap,
                   view, datePicker, gridCells, gridHidden, loads,
                   nLoads, posts, nPost, details>>

\* closeModal: Cancel, #modalClose
closeModal ==
    /\ modalContext # << >>
    /\ view = << >>
    /\ modalContext' = << >>
    /\ alert' = << >>
    /\ heap' = Collect(heap, Refs(slotsMap, gridCells, modalContext', view, posts))
    /\ UNCHANGED <<RESPECT_SERVER_REGISTERED, faults, nFailed, MODE, storedMode, resources, slotsMap,
                   registeredSlot, view, datePicker, gridCells, gridHidden, loads,
                   nLoads, posts, nPost, details>>

\* "View Details" of the register modal (fetchAppointmentDetails returns ctx.slot)
ViewDetails ==
    /\ ModalButtons("register")
    /\ view' = openViewModal(modalContext[1].slot, heap, FALSE, modalContext[1])
    /\ alert' = << >>
    /\ UNCHANGED <<RESPECT_SERVER_REGISTERED, faults, nFailed, MODE, storedMode, resources, slotsMap, heap,
                   registeredSlot, modalContext, datePicker, gridCells, gridHidden, loads,
                   nLoads, posts, nPost, details>>

\* the appointment ids the program's state still carries
IdsInUse ==
    { heap[o].Appoitment_Id : o \in DOMAIN heap }
      \cup { registeredSlot[i].Appoitment_Id : i \in 1..Len(registeredSlot) }
      \cup UNION { { modalContext[i].old[j].Appoitment_Id : j \in 1..Len(modalContext[i].old) } :
                     i \in 1..Len(modalContext) }
      \cup UNION { { posts[i].ctx.old[j].Appoitment_Id : j \in 1..Len(posts[i].ctx.old) } :
                     i \in 1..Len(posts) }
      \cup { posts[i].body.Appointment_Id : i \in 1..Len(posts) }
      \cup { q.appId : q \in details }

\* Date.now(): a millisecond count, later than every earlier call and far above
\* the server's appointment ids.  An id no part of the state carries any more
\* cannot be told from a later one, so the earliest such tick stands for it.
Epoch == 900000
DateNow ==
    LET used == { k \in 1..(Cardinality(IdsInUse) + 1) : (Epoch + k) \in IdsInUse }
    IN Epoch + (CHOOSE k \in 1..(Cardinality(IdsInUse) + 1) :
                    k \notin used /\ \A j \in 1..(k - 1) : j \in used)

\* the registration handleModalConfirm stores
NewRegistration(newId, ctx, s) ==
    <<[Appoitment_Id |-> newId, Resource_Id |-> ctx.resource,
       TimeFrom |-> s.TimeFrom, TimeTo |-> s.TimeTo]>>

\* ctx.slot.Register_Id = ctx.customerId; ctx.slot.Appoitment_Id = newId
StampSlot(h, ctx, newId) ==
    [h EXCEPT ![ctx.slot].Register_Id = ctx.customerId,
              ![ctx.slot].Appoitment_Id = newId]

\* a handleModalConfirm that sends the registration to the write endpoint
\* (the "replace with real API POST" of its comment)
handleModalConfirm_Posts ==
    /\ ModalButtons("register")
    /\ nPost + nFailed < MaxPosts
    /\ LET ctx == modalContext[1]
           newId == DateNow
           reg1 == NewRegistration(newId, ctx, heap[ctx.slot])
           h1 == StampSlot(heap, ctx, newId)
           g == renderGrid(datePicker, resources, slotsMap, h1, reg1,
                           RESPECT_SERVER_REGISTERED)
       IN /\ registeredSlot' = reg1
          /\ modalContext' = << >>
          /\ gridCells' = g.cells
          /\ gridHidden' = g.hidden
          /\ posts' = Append(posts, [obj |-> ctx.slot,
                                     body |-> [Appointment_Id |-> newId, Notes |-> "",
                                               Status |-> 1],
                                     ctx |-> ctx])
          /\ heap' = Collect(h1, Refs(slotsMap, gridCells', modalContext', view, posts'))
    /\ nPost' = nPost + 1
    /\ loads' = Acted(loads)
    /\ alert' = <<"Appointment registered (mock).">>
    /\ UNCHANGED <<RESPECT_SERVER_REGISTERED, faults, nFailed, MODE, storedMode, resources, slotsMap,
                   view, datePicker, nLoads, details>>

\* handleModalConfirm('register', ctx): the Register button
handleModalConfirm ==
    /\ ModalButtons("register")
    /\ LET ctx == modalContext[1]
           newId == DateNow
           reg1 == NewRegistration(newId, ctx, heap[ctx.slot])
           h1 == StampSlot(heap, ctx, newId)
           g == renderGrid(datePicker, resources, slotsMap, h1, reg1,
                           RESPECT_SERVER_REGISTERED)
       IN /\ registeredSlot' = reg1
          /\ modalContext' = << >>
          /\ gridCells' = g.cells
          /\ gridHidden' = g.hidden
          /\ heap' = Collect(h1, Refs(slotsMap, gridCells', modalContext', view, posts))
    /\ loads' = Acted(loads)
    /\ alert' = <<"Appointment registered (mock).">>
    /\ UNCHANGED <<RESPECT_SERVER_REGISTERED, faults, nFailed, MODE, storedMode, resources, slotsMap,
                   view, datePicker, nLoads, posts, nPost, details>>

\* fetchAppointmentDetails without slotObj: the lookup in slotsMap by appId;
\* the object found, 0 if none
FindInRepository(sm, h, resourceId, appId) ==
    LET arr == SlotsOf(sm, resourceId)
        Hit(o) == appId # 0 /\ h[o].Appoitment_Id # 0 /\ h[o].Appoitment_Id = appId
        i == FindIndex(arr, Hit)
    IN IF i = 0 THEN 0 ELSE arr[i]

\* "View Current" of the update modal
ViewCurrent ==
    /\ ModalButtons("update")
    /\ LET ctx == modalContext[1]
           current == IF ctx.old # << >> /\ ctx.old[1].Appoitment_Id # 0
                      THEN ctx.old ELSE registeredSlot
       IN IF current = << >>
          THEN /\ alert' = <<"No current registration available.">>
               /\ UNCHANGED <<view, details, MODE>>
          ELSE LET rid == IF current[1].Resource_Id # 0 THEN current[1].Resource_Id
                          ELSE ctx.resource
                   found == FindInRepository(slotsMap, heap, rid, current[1].Appoitment_Id)
               IN /\ alert' = << >>
                  /\ IF found # 0
                     THEN /\ view' = openViewModal(found, heap, FALSE, ctx)
                          /\ UNCHANGED <<details, MODE>>
                     ELSE /\ details' = details \cup
                                {[date |-> datePicker, resourceId |-> rid,
                                  appId |-> current[1].Appoitment_Id]}
                          /\ MODE' = "live"
                          /\ view' = view
    /\ UNCHANGED <<RESPECT_SERVER_REGISTERED, faults, nFailed, storedMode, resources, slotsMap, heap,
                   registeredSlot, modalContext, datePicker, gridCells, gridHidden, loads,
                   nLoads, posts, nPost>>

\* the second half of fetchAppointmentDetails: the slot picked from the
\* fetched array, << >> for null
PickDetail(arr, appId) ==
    LET Hit(x) == x.Appoitment_Id = appId
        i == IF appId # 0 THEN FindIndex(arr, Hit) ELSE 0
    IN IF Len(arr) = 0 THEN << >>
       ELSE IF i # 0 THEN <<arr[i].Appoitment_Id>>
       ELSE <<arr[1].Appoitment_Id>>

RemoveAt(s, i) == [k \in 1..(Len(s) - 1) |-> IF k < i THEN s[k] ELSE s[k + 1]]

\* the fetch of "View Current" completes and the read-only view opens
DetailsResponse(q, outcome) ==
    /\ q \in details
    /\ Faulty(outcome) => faults > 0
    /\ faults' = IF Faulty(outcome) THEN faults - 1 ELSE faults
    /\ nFailed' = IF Faulty(outcome) THEN nFailed + 1 ELSE nFailed
    /\ LET arr == SlotsData(outcome, CUSTOMER_ID, q.date, q.resourceId)
           shown == IF outcome = "malformed" THEN << >> ELSE PickDetail(arr, q.appId)
       IN view' = <<[editable |-> FALSE, obj |-> 0, shown |-> shown, ctx |-> << >>]>>
    /\ details' \in {details, details \ {q}}
    /\ MODE' = IF outcome = "fallback" THEN "mock" ELSE MODE
    /\ storedMode' = IF outcome = "fallback" THEN "mock" ELSE storedMode
    /\ alert' = << >>
    /\ heap' = Collect(heap, Refs(slotsMap, gridCells, modalContext, view', posts))
    /\ UNCHANGED <<RESPECT_SERVER_REGISTERED, resources, slotsMap, registeredSlot,
                   modalContext, datePicker, gridCells, gridHidden, loads, nLoads,
                   posts, nPost>>

\* "View Updating" of the update modal: the editable view of the new slot
ViewUpdating ==
    /\ ModalButtons("update")
    /\ view' = openViewModal(modalContext[1].slot, heap, TRUE, modalContext[1])
    /\ alert' = << >>
    /\ UNCHANGED <<RESPECT_SERVER_REGISTERED, faults, nFailed, MODE, storedMode, resources, slotsMap, heap,
                   registeredSlot, modalContext, datePicker, gridCells, gridHidden, loads,
                   nLoads, posts, nPost, details>>

\* "Go to View (finalize)" of the update modal
Finalize ==
    /\ ModalButtons("update")
    /\ view' = openViewModal(modalContext[1].slot, heap, TRUE, modalContext[1])
    /\ alert' = << >>
    /\ UNCHANGED <<RESPECT_SERVER_REGISTERED, faults, nFailed, MODE, storedMode, resources, slotsMap, heap,
                   registeredSlot, modalContext, datePicker, gridCells, gridHidden, loads,
                   nLoads, posts, nPost, details>>

(* ---------------- view modal ---------------- *)
\* a closeViewModal that falls back to mock mode
closeViewModal_ToMock ==
    /\ view # << >>
    /\ view' = << >>
    /\ MODE' = "mock"
    /\ alert' = << >>
    /\ heap' = Collect(heap, Refs(slotsMap, gridCells, modalContext, view', posts))
    /\ UNCHANGED <<RESPECT_SERVER_REGISTERED, faults, nFailed, storedMode, resources, slotsMap,
                   registeredSlot, modalContext, datePicker, gridCells, gridHidden, loads,
                   nLoads, posts, nPost, details>>

\* closeViewModal: Close, #viewModalClose
closeViewModal ==
    /\ view # << >>
    /\ view' = << >>
    /\ alert' = << >>
    /\ heap' = Collect(heap, Refs(slotsMap, gridCells, modalContext, view', posts))
    /\ UNCHANGED <<RESPECT_SERVER_REGISTERED, faults, nFailed, MODE, storedMode, resources, slotsMap,
                   registeredSlot, modalContext, datePicker, gridCells, gridHidden, loads,
                   nLoads, posts, nPost, details>>

\* what the user picks in #viewStatusSelect and types in #viewNotesInput
StatusInputs == {1, 2}
NotesInputs == {"confirmed"}

\* updateAppointmentAPI without its check of appointmentId
updateAppointmentAPI_NoCheck(appointmentId, statusValue, notesValue) ==
    <<[Appointment_Id |-> appointmentId, Notes |-> notesValue, Status |-> statusValue]>>

\* updateAppointmentAPI: the request it sends, << >> when it throws before
\* any network call
updateAppointmentAPI(appointmentId, statusValue, notesValue) ==
    IF appointmentId = 0 THEN << >>
    ELSE <<[Appointment_Id |-> appointmentId, Notes |-> notesValue, Status |-> statusValue]>>

\* the click handler's own check of slotObj.Appoitment_Id
\* the cap on the mutation requests issued
PostAllowed ==
    \/ nPost + nFailed < MaxPosts
    \/ faults = 0 /\ nFailed = 0 /\ nPost < MaxPosts + MaxRepeat

\* a submit that sends the request whatever the slot's id is
Submit_Unchecked(statusVal, notesVal) ==
    /\ view # << >>
    /\ view[1].editable
    /\ PostAllowed
    /\ nPost' = nPost + 1
    /\ MODE' = "live"
    /\ posts' = Append(posts, [obj |-> view[1].obj,
                               body |-> [Appointment_Id |-> heap[view[1].obj].Appoitment_Id,
                                         Notes |-> notesVal, Status |-> statusVal],
                               ctx |-> view[1].ctx[1]])
    /\ alert' = << >>
    /\ UNCHANGED <<RESPECT_SERVER_REGISTERED, faults, nFailed, storedMode, resources, slotsMap, heap,
                   registeredSlot, modalContext, view, datePicker, gridCells, gridHidden,
                   loads, nLoads, details>>

HasAppId(s) == s.Appoitment_Id # 0

\* "Update (send)" of the editable view, up to the await of the response
Submit(statusVal, notesVal) ==
    /\ view # << >>
    /\ view[1].editable
    /\ LET o == view[1].obj
           req == updateAppointmentAPI(heap[o].Appoitment_Id, statusVal, notesVal)
       IN IF ~HasAppId(heap[o])
          THEN /\ alert' = <<"Appointment_Id is missing - cannot update.">>
               /\ UNCHANGED <<MODE, posts, nPost>>
          ELSE IF req = << >>
          THEN /\ alert' = <<"Failed to send update.">>
               /\ UNCHANGED <<MODE, posts, nPost>>
          ELSE /\ PostAllowed
               /\ nPost' = nPost + 1
               /\ MODE' = "live"
               /\ posts' = Append(posts, [obj |-> o, body |-> req[1], ctx |-> view[1].ctx[1]])
               /\ alert' = << >>
    /\ UNCHANGED <<RESPECT_SERVER_REGISTERED, faults, nFailed, storedMode, resources, slotsMap, heap,
                   registeredSlot, modalContext, view, datePicker, gridCells, gridHidden,
                   loads, nLoads, details>>

\* the label the success branch maps the chosen status to
StatusLabel(statusVal) ==
    IF statusVal = 2 THEN "Accepted" ELSE IF statusVal = 3 THEN "Rejected" ELSE "Pending"

\* the success branch's writes to slotObj and to the slot of slotsMap with
\* the same Appoitment_Id (`found`)
ApplyUpdate(h, sm, o, statusVal, notesVal) ==
    LET h1 == [h EXCEPT ![o].Status = statusVal, ![o].Notes = notesVal,
                        ![o].Description_En = StatusLabel(statusVal),
                        ![o].Description_Ar = notesVal]
        resArr == SlotsOf(sm, h1[o].Resource_Id)
        Hit(x) == h1[x].Appoitment_Id = h1[o].Appoitment_Id
        i == FindIndex(resArr, Hit)
    IN IF i = 0 THEN h1
       ELSE [h1 EXCEPT ![resArr[i]].Status = statusVal, ![resArr[i]].Notes = notesVal,
                       ![resArr[i]].Description_En = StatusLabel(statusVal),
                       ![resArr[i]].Description_Ar = notesVal]

\* onUpdated, first half: delete prevObj.Register_Id
ClearPrevious(h, sm, ctx) ==
    IF ctx.old # << >> /\ ctx.old[1].Appoitment_Id # 0
    THEN LET prevResSlots == SlotsOf(sm, ctx.old[1].Resource_Id)
             Hit(x) == h[x].Appoitment_Id = ctx.old[1].Appoitment_Id
             i == FindIndex(prevResSlots, Hit)
         IN IF i = 0 THEN h ELSE [h EXCEPT ![prevResSlots[i]].Register_Id = 0]
    ELSE h

\* onUpdated, second half: the registration it stores
UpdatedRegistration(h, ctx, o) ==
    <<[Appoitment_Id |-> h[o].Appoitment_Id, Resource_Id |-> ctx.resource,
       TimeFrom |-> h[o].TimeFrom, TimeTo |-> h[o].TimeTo]>>

\* a success branch that does not call gridLoaderCaller
UpdateSucceeded_NoReload(p) ==
    /\ LET h1 == ApplyUpdate(heap, slotsMap, p.obj, p.body.Status, p.body.Notes)
           h2 == ClearPrevious(h1, slotsMap, p.ctx)
           h3 == [h2 EXCEPT ![p.obj].Register_Id = p.ctx.customerId]
           reg1 == UpdatedRegistration(h3, p.ctx, p.obj)
           g == renderGrid(datePicker, resources, slotsMap, h3, reg1,
                           RESPECT_SERVER_REGISTERED)
       IN /\ registeredSlot' = reg1
          /\ view' = << >>
          /\ gridCells' = g.cells
          /\ gridHidden' = g.hidden
          /\ MODE' = MODE
          /\ loads' = Acted(loads)
          /\ nLoads' = nLoads
          /\ alert' = <<"Update successful.">>
          /\ heap' = Collect(h3, Refs(slotsMap, gridCells', modalContext, view', posts'))

\* the handler resumes with { result: 'success' }: local update,
\* closeViewModal, renderGrid, gridLoaderCaller (up to its first await),
\* then options.onUpdated(slotObj)
UpdateSucceeded(p) ==
    /\ LET h1 == ApplyUpdate(heap, slotsMap, p.obj, p.body.Status, p.body.Notes)
           h2 == ClearPrevious(h1, slotsMap, p.ctx)
           h3 == [h2 EXCEPT ![p.obj].Register_Id = p.ctx.customerId]
           reg1 == UpdatedRegistration(h3, p.ctx, p.obj)
           g == renderGrid(datePicker, resources, slotsMap, h3, reg1,
                           RESPECT_SERVER_REGISTERED)
       IN /\ registeredSlot' = reg1
          /\ view' = << >>
          /\ gridCells' = g.cells
          /\ gridHidden' = g.hidden
          /\ MODE' = "live"
          /\ loads' = Acted(loads) \cup {Reload(nLoads + 1, datePicker)}
          /\ nLoads' = nLoads + 1
          /\ alert' = <<"Update successful.">>
          /\ heap' = Collect(h3, Refs(slotsMap, gridCells', modalContext, view', posts'))

\* a failure branch that has already written the submitted values to slotObj
\* (optimistic update, no rollback)
UpdateFailed_Optimistic(p, outcome, msg) ==
    /\ alert' = IF outcome = "throw" THEN <<"Failed to send update.">>
                ELSE <<"Update failed: ",
                       IF msg # "" THEN msg ELSE "Unknown response from server">>
    /\ heap' = ApplyUpdate(heap, slotsMap, p.obj, p.body.Status, p.body.Notes)
    /\ UNCHANGED <<registeredSlot, view, gridCells, gridHidden, MODE, loads, nLoads>>

\* a failure branch that drops the server's message
UpdateFailed_Generic(p, outcome, msg) ==
    /\ alert' = <<"Failed to send update.">>
    /\ UNCHANGED <<heap, registeredSlot, view, gridCells, gridHidden, MODE, loads, nLoads>>

\* a failure branch that calls options.onUpdated(slotObj) all the same
UpdateFailed_Registers(p, outcome, msg) ==
    /\ alert' = IF outcome = "throw" THEN <<"Failed to send update.">>
                ELSE <<"Update failed: ",
                       IF msg # "" THEN msg ELSE "Unknown response from server">>
    /\ registeredSlot' = UpdatedRegistration(heap, p.ctx, p.obj)
    /\ UNCHANGED <<heap, view, gridCells, gridHidden, MODE, loads, nLoads>>

\* the else branch (result is not success) and the catch block
UpdateFailed(p, outcome, msg) ==
    /\ alert' = IF outcome = "throw" THEN <<"Failed to send update.">>
                ELSE <<"Update failed: ",
                       IF msg # "" THEN msg ELSE "Unknown response from server">>
    /\ UNCHANGED <<heap, registeredSlot, view, gridCells, gridHidden, MODE, loads, nLoads>>

\* a handler that sends the request again when the response is not a success
PostResponse_Retries(i, outcome, msg) ==
    /\ i \in 1..Len(posts)
    /\ posts' = IF outcome = "success" THEN RemoveAt(posts, i) ELSE posts
    /\ IF outcome = "success"
       THEN msg = "" /\ UpdateSucceeded(posts[i])
       ELSE (outcome = "throw" => msg = "") /\ UpdateFailed(posts[i], outcome, msg)
    /\ UNCHANGED <<RESPECT_SERVER_REGISTERED, faults, nFailed, storedMode, resources, slotsMap,
                   modalContext, datePicker, nPost, details>>

\* the response of a mutation request arrives
PostResponse(i, outcome, msg) ==
    /\ i \in 1..Len(posts)
    /\ posts' = RemoveAt(posts, i)
    /\ IF outcome = "success"
       THEN msg = "" /\ UpdateSucceeded(posts[i])
       ELSE (outcome = "throw" => msg = "") /\ UpdateFailed(posts[i], outcome, msg)
    /\ UNCHANGED <<RESPECT_SERVER_REGISTERED, faults, nFailed, storedMode, resources, slotsMap,
                   modalContext, datePicker, nPost, details>>

ServerMessages == {"", "slot taken"}

\* what the network answers.  Reads: the resource list arrives ("ok"), is
\* empty, or the request fails; a slot list arrives, the request fails or
\* answers {result:'failed'} ("fallback"), or the answer is no array
\* ("malformed").  A read ends in failure only while `faults` allows it: never
\* under Spec and SpecTrust, MaxFaults times under SpecReads.  The write may
\* end any way.
ResourceOutcomes == {"ok", "empty", "fail"}
SlotOutcomes == {"ok", "fallback", "malformed"}
PostOutcomes == {"success", "failed", "throw"}

\* the session is followed: no request beyond MaxPosts has been issued
Followed == nPost <= MaxPosts

Next ==
    \/ Followed /\ LoadButton
    \/ Followed /\ \E d \in Dates : DateNav(d)
    \/ Followed /\ \E L \in loads : \E outcome \in ResourceOutcomes :
                      ResourcesResponse(L, outcome)
    \/ Followed /\ \E L \in loads : \E r \in L.pending :
                      \E outcome \in SlotOutcomes : SlotsResponse(L, r, outcome)
    \/ Followed /\ \E c \in gridCells : SlotClick(c)
    \/ Followed /\ closeModal
    \/ Followed /\ ViewDetails
    \/ Followed /\ handleModalConfirm
    \/ Followed /\ ViewCurrent
    \/ Followed /\ \E q \in details :
                      \E outcome \in SlotOutcomes : DetailsResponse(q, outcome)
    \/ Followed /\ ViewUpdating
    \/ Followed /\ Finalize
    \/ Followed /\ closeViewModal
    \/ Followed /\ \E st \in StatusInputs : \E n \in NotesInputs : Submit(st, n)
    \/ Followed /\ \E i \in 1..Len(posts) : \E outcome \in PostOutcomes :
                      \E msg \in ServerMessages : PostResponse(i, outcome, msg)

Spec == Init /\ [][Next]_vars

SpecTrust == InitTrust /\ [][Next]_vars

SpecReads == InitReads /\ [][Next]_vars

(* ================= properties ================= *)
\* the workflow states of the register / update dialogs
Idle == modalContext = << >> /\ view = << >>
RegisterPending == modalContext # << >> /\ modalContext[1].mode = "register" /\ view = << >>
UpdatePending == modalContext # << >> /\ modalContext[1].mode = "update" /\ view = << >>
ViewingEditable == view # << >> /\ view[1].editable
ViewingReadOnly == view # << >> /\ ~view[1].editable

\* Tracker.isCurrent(appointmentId)
IsCurrent(reg, appointmentId) ==
    reg # << >> /\ reg[1].Appoitment_Id = appointmentId

\* ownedByMe of the slot click rule
OwnedByMe(s) ==
    \/ IsCurrent(registeredSlot, s.Appoitment_Id)
    \/ RESPECT_SERVER_REGISTERED /\ s.Register_Id = CUSTOMER_ID

\* the Slot Repository as data: every slot's fields, per resource, in order
Repository ==
    [r \in DOMAIN slotsMap |-> [i \in 1..Len(slotsMap[r]) |-> heap[slotsMap[r][i]]]]

\* C1: a click on a slot that is not ownedByMe opens the register dialog for
\* (slot, resource) exactly when the Tracker is absent, and otherwise the
\* update dialog for (Tracker's value, slot, resource); nothing else is entered.
C1_SlotClickTransition ==
    [][\A c \in gridCells :
          (SlotClick(c) /\ ~OwnedByMe(heap[c.obj])) =>
             /\ modalContext' =
                  <<[mode |-> IF registeredSlot = << >> THEN "register" ELSE "update",
                     old |-> registeredSlot, slot |-> c.obj, resource |-> c.res,
                     customerId |-> CUSTOMER_ID]>>
             /\ view' = << >>
             /\ registeredSlot' = registeredSlot]_vars

\* both dialogs have been opened by a click: an update dialog is open
C1_Witness == UpdatePending /\ modalContext[1].old = registeredSlot


\* the objects the Slot Repository holds
InRepository(sm, o) == \E r \in DOMAIN sm : o \in SeqToSet(sm[r])

\* C2: confirming the register dialog gives the slot a new non-null
\* appointment id and the session customer as owner, sets the Tracker to
\* {that id, resource, timeFrom, timeTo}, returns to Idle, and the render that
\* follows shows the slot's cell as 'registered' - also when the slot was
\* clicked before a load replaced the Slot Repository.
C2_RegisterConfirm ==
    [][handleModalConfirm =>
          LET ctx == modalContext[1]
              o == ctx.slot
          IN /\ Idle'
             /\ o \in DOMAIN heap'
             /\ heap'[o].Appoitment_Id # 0
             /\ heap'[o].Appoitment_Id \notin IdsInUse
             /\ heap'[o].Register_Id = CUSTOMER_ID
             /\ registeredSlot' =
                  <<[Appoitment_Id |-> heap'[o].Appoitment_Id, Resource_Id |-> ctx.resource,
                     TimeFrom |-> heap[o].TimeFrom, TimeTo |-> heap[o].TimeTo]>>
             /\ IsCurrent(registeredSlot', heap'[o].Appoitment_Id)
             /\ \E c \in gridCells' : c.obj = o /\ c.cls = "registered"]_vars

\* C3: when the submit of the editable view reached from the update dialog is
\* answered with success, the submitted slot of the Slot Repository carries
\* the submitted status, label and notes, the old registration's slot has no
\* owner, the Tracker holds the new slot's registration, and the render shows
\* the new cell 'registered' and the old cell not.
C3_SuccessfulUpdate ==
    [][\A i \in 1..Len(posts) :
          PostResponse(i, "success", "") =>
             LET p == posts[i]
                 new == p.obj
                 old == p.ctx.old
                 IsOld(o) == old # << >> /\ heap'[o].Appoitment_Id = old[1].Appoitment_Id
             IN /\ InRepository(slotsMap', new)
                /\ heap'[new].Status = p.body.Status
                /\ heap'[new].Notes = p.body.Notes
                /\ heap'[new].Description_En = StatusLabel(p.body.Status)
                /\ \A o \in DOMAIN heap' :
                      InRepository(slotsMap', o) /\ IsOld(o) => heap'[o].Register_Id = 0
                /\ registeredSlot' =
                     <<[Appoitment_Id |-> heap[new].Appoitment_Id,
                        Resource_Id |-> p.ctx.resource,
                        TimeFrom |-> heap[new].TimeFrom, TimeTo |-> heap[new].TimeTo]>>
                /\ \E c \in gridCells' : c.obj = new /\ c.cls = "registered"
                /\ \A c \in gridCells' : IsOld(c.obj) => c.cls # "registered"]_vars

\* C4: a submit whose mutation is answered with a result other than success,
\* or whose call throws, leaves every slot of the Slot Repository and the
\* Tracker as they were: neither the sending of the request nor the handling
\* of the failure changes them.
C4_FailedUpdateChangesNothing ==
    [][/\ \A st \in StatusInputs : \A n \in NotesInputs :
            Submit(st, n) =>
               Repository' = Repository /\ registeredSlot' = registeredSlot
       /\ \A i \in 1..Len(posts) : \A outcome \in PostOutcomes \ {"success"} :
            \A msg \in ServerMessages :
               PostResponse(i, outcome, msg) =>
                  /\ Repository' = Repository
                  /\ registeredSlot' = registeredSlot
                  /\ heap'[posts[i].obj] = heap[posts[i].obj]]_vars

\* a thrown mutation call has been handled
C4_Witness == nPost = 1 /\ posts = << >> /\ alert = <<"Failed to send update.">>

\* C5: every failed mutation ends with a failure notice: the server's message
\* when the response carries one, the generic network-error notice when the
\* call throws; never no notice and never the success notice.
C5_FailureNotice ==
    [][\A i \in 1..Len(posts) : \A outcome \in PostOutcomes \ {"success"} :
          \A msg \in ServerMessages :
             PostResponse(i, outcome, msg) =>
                /\ alert' # << >>
                /\ alert' # <<"Update successful.">>
                /\ outcome = "failed" /\ msg # "" => alert' = <<"Update failed: ", msg>>
                /\ outcome = "failed" /\ msg = "" => alert'[1] = "Update failed: "
                /\ outcome = "throw" => alert' = <<"Failed to send update.">>]_vars

\* the server's message of a refused update is on screen
C5_Witness == nPost = 1 /\ posts = << >> /\ alert = <<"Update failed: ", "slot taken">>

\* C6: a submit from the editable view of a slot without appointment id sends
\* no request and changes neither the Slot Repository nor the Tracker, and
\* updateAppointmentAPI with an empty appointmentId fails before any request.
C6_ValidationBeforeMutation ==
    /\ \A st \in StatusInputs : \A n \in NotesInputs : updateAppointmentAPI(0, st, n) = << >>
    /\ [][\A st \in StatusInputs : \A n \in NotesInputs :
             (Submit(st, n) /\ heap[view[1].obj].Appoitment_Id = 0) =>
                /\ posts' = posts
                /\ nPost' = nPost
                /\ Repository' = Repository
                /\ registeredSlot' = registeredSlot
                /\ alert' # << >>]_vars

\* the editable view of a slot without appointment id has refused a submit
C6_Witness ==
    /\ ViewingEditable
    /\ heap[view[1].obj].Appoitment_Id = 0
    /\ alert = <<"Appointment_Id is missing - cannot update.">>

\* C7: a request to the write endpoint is issued only by a submit in the
\* editable view; no click, register confirm, cancel, view, close or load
\* issues one.
C7_WriteOnlyFromEditableSubmit ==
    [][(nPost' # nPost \/ Len(posts') > Len(posts)) =>
          /\ ViewingEditable
          /\ \E st \in StatusInputs : \E n \in NotesInputs : Submit(st, n)
          /\ nPost' = nPost + 1
          /\ Len(posts') = Len(posts) + 1]_vars

\* a write request is in flight, sent from the editable view
C7_Witness == nPost = 1 /\ Len(posts) = 1 /\ ViewingEditable

\* C8: a click on a slot that is ownedByMe changes nothing - not the dialogs,
\* the Slot Repository or the Tracker - and only shows the 'already
\* registered' notice.
C8_OwnedClickNoTransition ==
    [][\A c \in gridCells :
          (SlotClick(c) /\ OwnedByMe(heap[c.obj])) =>
             /\ modalContext' = modalContext
             /\ view' = view
             /\ Repository' = Repository
             /\ slotsMap' = slotsMap
             /\ registeredSlot' = registeredSlot
             /\ alert' = <<"This slot is already registered for you.">>]_vars

\* the notice is on screen and the grid shows a slot owned only by the
\* server's Register_Id, and one the Tracker holds
C8_Witness ==
    /\ alert = <<"This slot is already registered for you.">>
    /\ RESPECT_SERVER_REGISTERED
    /\ \E c \in gridCells :
          /\ heap[c.obj].Register_Id = CUSTOMER_ID
          /\ ~IsCurrent(registeredSlot, heap[c.obj].Appoitment_Id)
    /\ \E c \in gridCells : IsCurrent(registeredSlot, heap[c.obj].Appoitment_Id)

\* the cells the last render classified 'registered'
RegisteredCells == { c \in gridCells : c.cls = "registered" }

C10_CloseViewChangesNothing ==
    [][/\ closeViewModal =>
            /\ view' = << >>
            /\ posts' = posts
            /\ nPost' = nPost
            /\ Repository' = Repository
            /\ registeredSlot' = registeredSlot
            /\ MODE' = MODE
            /\ storedMode' = storedMode
       /\ ViewingReadOnly =>
            /\ nPost' = nPost
            /\ Len(posts') <= Len(posts)
            /\ \A st \in StatusInputs : \A n \in NotesInputs : ~Submit(st, n)]_vars

\* the read-only view of the current registration is open over the update dialog
C10_Witness ==
    ViewingReadOnly /\ modalContext # << >> /\ modalContext[1].mode = "update"


(* ---------------- ownership trust and loading ---------------- *)
\* the values a server may report as a slot's ownerCustomerId (Register_Id)
Owners == {0, CUSTOMER_ID, OtherCustomer}

\* slot s as the server would have sent it with owner v
WithOwner(s, v) == [s EXCEPT !.Register_Id = v]

\* C11: with RESPECT_SERVER_REGISTERED off the owner a slot carries decides
\* nothing.  Stated per step (the unwinding form of "two runs that differ only
\* in owners stay alike"): whatever owner any slot object had instead, the
\* renderer classifies it the same and a click on it opens the same dialog
\* with the same context, and the step in which a slot list arrives leaves the
\* Tracker as it was (no seeding).
C11_OwnershipDecidesNothing ==
    [][ ~RESPECT_SERVER_REGISTERED =>
          /\ \A o \in DOMAIN heap' : \A v \in Owners :
                /\ Classify(WithOwner(heap'[o], v), registeredSlot', RESPECT_SERVER_REGISTERED')
                     = Classify(heap'[o], registeredSlot', RESPECT_SERVER_REGISTERED')
                /\ onSlotClick(o, WithOwner(heap'[o], v), heap'[o].ResourceName,
                               registeredSlot', RESPECT_SERVER_REGISTERED')
                     = onSlotClick(o, heap'[o], heap'[o].ResourceName,
                                   registeredSlot', RESPECT_SERVER_REGISTERED')
          /\ \A L \in loads : \A r \in L.pending : \A outcome \in SlotOutcomes :
                SlotsResponse(L, r, outcome) => registeredSlot' = registeredSlot ]_vars

\* the register dialog is open on a slot the server reports as the session
\* customer's, rendered as available, with no Tracker
C11_Witness ==
    /\ ~RESPECT_SERVER_REGISTERED
    /\ registeredSlot = << >>
    /\ modalContext # << >>
    /\ modalContext[1].mode = "register"
    /\ heap[modalContext[1].slot].Register_Id = CUSTOMER_ID
    /\ \E c \in gridCells : c.obj = modalContext[1].slot /\ c.cls = "available"


\* a load settles in this step: it returns on an empty resource list, its
\* Promise.all resolves with the last slot list, or a callback throws
Joins(L, r, outcome) ==
    SlotsResponse(L, r, outcome) /\ ~L.settled /\ outcome # "malformed" /\ L.pending = {r}

Throws(L, r, outcome) ==
    SlotsResponse(L, r, outcome) /\ ~L.settled /\ outcome = "malformed"

\* the first slot, scanning the resources in list order and each slot list in
\* list order, whose Register_Id is the session customer's
RECURSIVE FirstOwnedFrom(_, _, _, _)
FirstOwnedFrom(res, sm, h, i) ==
    IF i > Len(res) THEN << >>
    ELSE LET arr == SlotsOf(sm, res[i])
             Mine(o) == h[o].Register_Id # 0 /\ h[o].Register_Id = CUSTOMER_ID
             j == FindIndex(arr, Mine)
         IN IF j # 0
            THEN <<[Appoitment_Id |-> h[arr[j]].Appoitment_Id, Resource_Id |-> res[i],
                    TimeFrom |-> h[arr[j]].TimeFrom, TimeTo |-> h[arr[j]].TimeTo]>>
            ELSE FirstOwnedFrom(res, sm, h, i + 1)

\* C12: with RESPECT_SERVER_REGISTERED on, when a load during which the user
\* neither registered nor updated settles with all its slot lists, the Tracker
\* holds the first slot in scan order that the server reports as the session
\* customer's.
C12_SeedIsFirstInScanOrder ==
    [][ \A L \in loads : \A r \in L.pending : \A outcome \in SlotOutcomes :
          RESPECT_SERVER_REGISTERED /\ ~L.acted /\ Joins(L, r, outcome)
            => registeredSlot' = FirstOwnedFrom(resources', slotsMap', heap', 1) ]_vars


\* the call L of loadAndRender ends in this step
Settles(L) ==
    \/ ResourcesResponse(L, "empty")
    \/ \E r \in L.pending : \E outcome \in SlotOutcomes :
          Joins(L, r, outcome) \/ Throws(L, r, outcome)

\* C13: with RESPECT_SERVER_REGISTERED off, when a call of loadAndRender
\* during which the user neither registered nor updated ends, whatever its
\* outcome, the Tracker is absent.
C13_FreshLoadClears ==
    [][ \A L \in loads :
          ~RESPECT_SERVER_REGISTERED /\ ~L.acted /\ Settles(L)
            => registeredSlot' = << >> ]_vars


\* C14: with RESPECT_SERVER_REGISTERED off the Tracker starts absent, and a
\* step gives it a value only if it is a register confirm, and then the value
\* is a registration with a fresh id for the dialog's slot and resource, or a
\* successful response to an editable-view submit, and then the value names
\* the submitted slot and the resource of the dialog it came from.
C14_TrackerOnlyFromLocalSuccess ==
    /\ registeredSlot = << >>
    /\ [][ ~RESPECT_SERVER_REGISTERED /\ registeredSlot' # << >>
              /\ registeredSlot' # registeredSlot
            => \/ /\ handleModalConfirm
                  /\ registeredSlot'[1].Appoitment_Id \notin IdsInUse
                  /\ registeredSlot'[1].Resource_Id = modalContext[1].resource
                  /\ registeredSlot'[1].TimeFrom = heap[modalContext[1].slot].TimeFrom
                  /\ registeredSlot'[1].TimeTo = heap[modalContext[1].slot].TimeTo
               \/ \E i \in 1..Len(posts) :
                     /\ PostResponse(i, "success", "")
                     /\ registeredSlot'[1].Appoitment_Id = heap[posts[i].obj].Appoitment_Id
                     /\ registeredSlot'[1].Resource_Id = posts[i].ctx.resource
                     /\ registeredSlot'[1].TimeFrom = heap[posts[i].obj].TimeFrom
                     /\ registeredSlot'[1].TimeTo = heap[posts[i].obj].TimeTo ]_vars

\* the Tracker holds what a successful submit produced: the submitted slot
\* under the appointment id the server gave it
C14_Witness ==
    /\ ~RESPECT_SERVER_REGISTERED
    /\ alert = <<"Update successful.">>
    /\ registeredSlot # << >>
    /\ registeredSlot[1].Appoitment_Id < Epoch


\* every slot object of repository sm was created by load n for date d
AllFrom(sm, h, n, d) ==
    \A k \in DOMAIN sm : \A o \in SeqToSet(sm[k]) :
        LoadOf(o) = n /\ h[o].TimeFrom.d = d

\* C15: when a load ends with an empty resource list, the resource list and
\* the Slot Repository are empty; when it ends with its last slot list, the
\* resource list is not empty, the repository has one slot list for each
\* listed resource and no other, and every slot in it was fetched by that
\* load for its date.
C15_WholesaleReplacement ==
    [][ \A L \in loads :
          /\ ResourcesResponse(L, "empty")
                => resources' = << >> /\ DOMAIN slotsMap' = {}
          /\ \A r \in L.pending : \A outcome \in SlotOutcomes :
                Joins(L, r, outcome)
                  => /\ resources' # << >>
                     /\ DOMAIN slotsMap' = SeqToSet(resources')
                     /\ AllFrom(slotsMap', heap', L.id, L.date) ]_vars


\* this step calls renderGrid: a load's join, the register confirm, or the
\* success branch of the submit
Renders ==
    \/ handleModalConfirm
    \/ \E i \in 1..Len(posts) : PostResponse(i, "success", "")
    \/ \E L \in loads : \E r \in L.pending : \E outcome \in SlotOutcomes :
          Joins(L, r, outcome)

\* the repository lacks the slot list of a listed resource: a load has reset
\* it and not all of that load's lists have arrived
Partial(res, sm) == \E r \in SeqToSet(res) : r \notin DOMAIN sm

\* C16: no step that renders the grid renders it from a partially loaded
\* repository.
C16_NoPartialRender ==
    [][ Renders => ~Partial(resources', slotsMap') ]_vars


\* C17: when a load ends after a load issued later than it has already ended
\* (so the two overlapped), and no call is left in flight, the Slot Repository
\* holds only what the load issued last fetched, for the date it was issued
\* for (the picker's), and the grid shows that date.
C17_LastIssuedWins ==
    [][ \A L \in loads :
          Settles(L) /\ loads' = {} /\ L.id < nLoads
            => /\ AllFrom(slotsMap', heap', nLoads, datePicker)
               /\ \A c \in gridCells' : c.row.d = datePicker ]_vars


\* C18: when a callback of the fan-out throws, the load ends there: the grid
\* is hidden and the empty state shown, nothing is rendered, and no later
\* completion of that load's fetches renders or shows the grid.
C18_ThrowFailsLoad ==
    [][ \A L \in loads : \A r \in L.pending :
          /\ Throws(L, r, "malformed")
                => /\ gridHidden'
                   /\ gridCells' = gridCells
                   /\ \A K \in loads' : K.id = L.id => K.settled
          /\ \A outcome \in SlotOutcomes :
                SlotsResponse(L, r, outcome) /\ L.settled
                  => gridCells' = gridCells /\ gridHidden' = gridHidden ]_vars

\* a load has failed with fetches still outstanding; the grid is hidden
\* although resources were returned
C18_Witness ==
    /\ nFailed = 1
    /\ gridHidden
    /\ resources # << >>
    /\ \E L \in loads : L.settled /\ L.pending # {}


\* the values the mode flag and its persisted copy take
Modes == {"", "live", "mock"}

\* C19: when the resource request fails, fetchResources returns the built-in
\* resource list with the mode flag and its persisted copy 'mock', whatever
\* they were; the load takes that list, keeps the persisted 'mock', does not
\* go to the empty state and goes on with one slot fetch for every built-in
\* resource; and when the last slot list of a load arrives while the built-in
\* list is the resource list, the grid is rendered and shown.
C19_ResourceFailureFallsBack ==
    /\ \A mode \in Modes : \A stored \in Modes :
          fetchResources("fail", mode, stored)
            = [data |-> MOCK_resources, MODE |-> "mock", stored |-> "mock"]
    /\ [][ \A L \in loads :
            /\ ResourcesResponse(L, "fail")
                  => /\ resources' = MOCK_resources
                     /\ storedMode' = "mock"
                     /\ gridHidden' = gridHidden
                     /\ \E K \in loads' :
                           /\ K.id = L.id /\ K.phase = "slots" /\ ~K.settled
                           /\ K.pending = SeqToSet(MOCK_resources)
            /\ \A r \in L.pending : \A outcome \in SlotOutcomes :
                  Joins(L, r, outcome) /\ resources = MOCK_resources
                    => /\ ~gridHidden'
                       /\ gridCells' = RenderCells(L.date, MOCK_resources, slotsMap', heap',
                                                   registeredSlot', RESPECT_SERVER_REGISTERED)
          ]_vars

\* a load whose resource request failed has rendered the built-in resources
C19_Witness ==
    /\ nFailed = 1
    /\ resources = MOCK_resources
    /\ storedMode = "mock"
    /\ loads = {}
    /\ ~gridHidden
    /\ DOMAIN slotsMap = SeqToSet(MOCK_resources)
    /\ gridCells # {}


\* the appointment ids of MOCK.slots under the key customer|date|resource
FixtureIds(customerId, dateStr, r) ==
    IF customerId = 1 /\ dateStr = 1 /\ r = 1 THEN <<7909, 7910>>
    ELSE IF customerId = 1 /\ dateStr = 1 /\ r = 2 THEN <<7920, 7921>>
    ELSE << >>

IdsOf(arr) == [i \in 1..Len(arr) |-> arr[i].Appoitment_Id]

\* C20: when the slot request fails or answers {result:'failed'},
\* fetchSlotsForResource returns the built-in slot list stored under exactly
\* the key (customer, date, resource), the empty list when there is none, with
\* the mode flag and its persisted copy 'mock'; the load stores that list for
\* the resource with the flag 'mock' in memory and persisted, and is not made
\* to fail by it.
C20_SlotFailureFallsBack ==
    /\ \A c \in {CUSTOMER_ID, OtherCustomer} : \A d \in Dates :
        \A r \in SeqToSet(MOCK_resources) : \A mode \in Modes : \A stored \in Modes :
          LET f == fetchSlotsForResource("fallback", c, d, r, mode, stored)
          IN /\ IdsOf(f.data) = FixtureIds(c, d, r)
             /\ \A i \in 1..Len(f.data) : f.data[i].TimeFrom.d = d
             /\ f.MODE = "mock" /\ f.stored = "mock"
    /\ [][ \A L \in loads : \A r \in L.pending :
            SlotsResponse(L, r, "fallback")
              => /\ MODE' = "mock" /\ storedMode' = "mock"
                 /\ r \in DOMAIN slotsMap'
                 /\ [i \in 1..Len(slotsMap'[r]) |-> heap'[slotsMap'[r][i]].Appoitment_Id]
                      = FixtureIds(CUSTOMER_ID, L.date, r)
                 /\ \A K \in loads' : K.id = L.id => K.settled = L.settled
                 /\ ~L.settled /\ L.pending = {r} /\ resources # << >> => ~gridHidden'
          ]_vars

\* a load has stored the built-in slot list of a resource after its slot
\* request failed, and has rendered
C20_Witness ==
    /\ nFailed = 1
    /\ MODE = "mock"
    /\ storedMode = "mock"
    /\ ~gridHidden
    /\ \E r \in DOMAIN slotsMap :
          Len(slotsMap[r]) > 0 /\ heap[slotsMap[r][1]].Appoitment_Id = FixtureIds(CUSTOMER_ID, Today, r)[1]


(* ---------------- transport, retries, renderer ---------------- *)
\* C21: while the mode flag the program holds is 'mock', a load the user
\* starts gets its resources from the fixture without a network request: no
\* call of loadAndRender is left waiting for the resources response.
C21_MockModeSkipsNetwork ==
    [][ MODE = "mock" /\ (LoadButton \/ \E d \in Dates : DateNav(d))
          => \A L \in loads' : L.id = nLoads' => L.phase # "resources" ]_vars


\* the read requests in flight: resources requests by call, slots requests by
\* call and resource
ResourceReqs(ls) == { L.id : L \in { K \in ls : K.phase = "resources" } }

SlotReqs(ls) == UNION { { <<L.id, r>> : r \in L.pending } : L \in ls }

\* C22: no request is sent twice.  A submit click sends at most one mutation
\* request.  A resources request is only ever added for a call that starts
\* in that step, and slots requests only for a call whose resources arrive in
\* that step, one for each resource of the list.  The step in which a request
\* ends in failure removes that request and sends nothing: a failed mutation
\* leaves the other requests as they are, a failed slots or details request
\* likewise, and a failed resources request is followed only by the slots
\* requests for the built-in resources.
C22_NoAutomaticRetry ==
    [][ /\ Len(posts') <= Len(posts) + 1
        /\ Len(posts') > Len(posts)
              => /\ \E st \in StatusInputs : \E n \in NotesInputs : Submit(st, n)
                 /\ nPost' = nPost + 1
        /\ ResourceReqs(loads') \ ResourceReqs(loads) \subseteq {nLoads + 1}
        /\ nLoads' \in {nLoads, nLoads + 1}
        /\ \A L \in loads :
              /\ L.phase = "slots" =>
                    { r \in SeqToSet(MOCK_resources) : <<L.id, r>> \in SlotReqs(loads') }
                      \subseteq L.pending
              /\ \A K \in loads' : K.id = L.id /\ K.phase = "slots" /\ L.phase = "resources"
                    => K.pending = SeqToSet(resources')
              /\ ResourcesResponse(L, "fail")
                    => /\ ResourceReqs(loads') = ResourceReqs(loads) \ {L.id}
                       /\ SlotReqs(loads') = SlotReqs(loads)
                            \cup { <<L.id, r>> : r \in SeqToSet(MOCK_resources) }
                       /\ UNCHANGED <<posts, nPost, details, nLoads>>
              /\ \A r \in L.pending : \A outcome \in {"fallback", "malformed"} :
                    SlotsResponse(L, r, outcome)
                      => /\ SlotReqs(loads') = SlotReqs(loads) \ {<<L.id, r>>}
                         /\ ResourceReqs(loads') = ResourceReqs(loads)
                         /\ UNCHANGED <<posts, nPost, details, nLoads>>
        /\ \A q \in details : \A outcome \in {"fallback", "malformed"} :
              DetailsResponse(q, outcome)
                => details' \subseteq details /\ UNCHANGED <<loads, nLoads, posts, nPost>>
        /\ \A i \in 1..Len(posts) : \A outcome \in {"failed", "throw"} :
            \A msg \in ServerMessages :
              PostResponse(i, outcome, msg)
                => /\ posts' = RemoveAt(posts, i)
                   /\ UNCHANGED <<loads, nLoads, nPost, details>> ]_vars

\* a read has failed, every request has been answered, and the one load of
\* the page is still the only one
C22_Witness ==
    /\ nFailed = 1
    /\ nLoads = 1
    /\ loads = {}
    /\ posts = << >>
    /\ details = {}


\* no two slots of repository sm carry the same appointment id (slots without
\* an id carry none)
DistinctIds(sm, h) ==
    \A r1 \in DOMAIN sm : \A r2 \in DOMAIN sm :
    \A i \in 1..Len(sm[r1]) : \A j \in 1..Len(sm[r2]) :
        /\ h[sm[r1][i]].Appoitment_Id # 0
        /\ h[sm[r1][i]].Appoitment_Id = h[sm[r2][j]].Appoitment_Id
        => r1 = r2 /\ i = j

\* C23: the Tracker holds zero or one registration in every state, and with
\* RESPECT_SERVER_REGISTERED off every render of a repository with pairwise
\* distinct appointment ids classifies at most one cell 'registered'.
C23_AtMostOneRegistration ==
    /\ Len(registeredSlot) <= 1
    /\ [][ /\ Len(registeredSlot') <= 1
           /\ ~RESPECT_SERVER_REGISTERED /\ Renders /\ DistinctIds(slotsMap', heap')
                => Cardinality({ c \in gridCells' : c.cls = "registered" }) <= 1 ]_vars

\* after a register and a successful update the render shows exactly one
\* registered cell, while the repository still holds the slot that was
\* registered first, under the id the register gave it
C23_Witness ==
    /\ ~RESPECT_SERVER_REGISTERED
    /\ alert = <<"Update successful.">>
    /\ Cardinality(RegisteredCells) = 1
    /\ DistinctIds(slotsMap, heap)
    /\ \E o \in DOMAIN heap : heap[o].Appoitment_Id > Epoch /\ InRepository(slotsMap, o)


\* the status codes and labels a slot may carry
StatusCodes == {1, 2, 3}
Labels == {"Available", "available", "AVAILABLE", "Booked", ""}

\* the classification by the precedence rule: registered, else available,
\* else booked
ExpectedClass(s, reg, trust) ==
    IF IsCurrent(reg, s.Appoitment_Id) \/ (trust /\ s.Register_Id = CUSTOMER_ID)
    THEN "registered"
    ELSE IF s.Status = 1 \/ s.Description_En \in {"Available", "available", "AVAILABLE"}
    THEN "available"
    ELSE "booked"

\* the appointment ids a slot may carry (0: none), and the ids the Tracker
\* may hold
SlotIds == {0, 101, 102}
TrackerIds == {101, Epoch + 1}
TrackerWith(id) == << Raw(id, Today, 9, 1, "Available", 0, 1) >>

StartTimes ==
    { [d |-> d, h |-> SLOT_MIN_TIME, m |-> m, s |-> sec] :
        d \in Dates, m \in {0, 15, 30}, sec \in {0, 30} }
MaxList == 2

\* the markers of one grid: for each resource column and row the first slot
\* of the column's list, in list order, that starts in the row's minute
Markers(rows, res, sm, h) ==
    UNION { LET l == SlotsOf(sm, r)
                At(j, dt) == LET t == h[l[j]].TimeFrom
                             IN t.d = dt.d /\ t.h = dt.h /\ t.m = dt.m
            IN { [res |-> r, row |-> rows[x[1]], obj |-> l[x[2]]] :
                   x \in { y \in (1..Len(rows)) \X (1..Len(l)) :
                             /\ At(y[2], rows[y[1]])
                             /\ \A j \in 1..(y[2] - 1) : ~At(j, rows[y[1]]) } } :
            r \in SeqToSet(res) }

Shown(cells) == { [res |-> c.res, row |-> c.row, obj |-> c.obj] : c \in cells }

\* C25: a render draws, per row and resource column, exactly the first slot
\* of the column's list that starts in the row's minute (seconds ignored),
\* and nothing where no slot does: for every list of up to MaxList slots
\* with the start times above, and for every render of the program.
C25_FirstMatchPerCell ==
    /\ \A n \in 0..MaxList : \A ts \in [1..n -> StartTimes] :
          LET h == [i \in 1..n |-> [Raw(100 + i, Today, SLOT_MIN_TIME, 1, "Available", 0, 1)
                                       EXCEPT !.TimeFrom = ts[i]]]
              sm == [r \in {1} |-> [i \in 1..n |-> i]]
              cells == RenderCells(Today, <<1>>, sm, h, << >>, FALSE)
          IN /\ Shown(cells) = Markers(RowTimes[Today], <<1>>, sm, h)
             /\ \A c1, c2 \in cells : c1.row = c2.row => c1 = c2
    /\ [][ Renders =>
             /\ \E d \in Dates :
                   Shown(gridCells') = Markers(RowTimes[d], resources', slotsMap', heap')
             /\ \A c1, c2 \in gridCells' :
                   c1.row = c2.row /\ c1.res = c2.res => c1 = c2 ]_vars

\* a render has drawn a marker in one cell of a column and left another cell
\* of that column empty
C25_Witness ==
    /\ ~gridHidden
    /\ \E c \in gridCells : \E k \in 1..Len(RowTimes[c.row.d]) :
          \A e \in gridCells : ~(e.res = c.res /\ e.row = RowTimes[c.row.d][k])


\* C26: with RESPECT_SERVER_REGISTERED off.  (1) A register confirm leaves
\* the dialog's slot classified 'registered', and drawn so when the grid
\* shows its date and no load is in flight; while no load is in flight or
\* started, a slot classified 'registered' stays so, and so does its
\* marker.  (2) When a call of loadAndRender during which the user neither
\* registered nor updated ends, whatever its outcome, no slot of its date in
\* the repository is classified 'registered' and no marker of that date is.
C26_RegisterThenLoad ==
    [][ ~RESPECT_SERVER_REGISTERED =>
        /\ handleModalConfirm
             => /\ modalContext[1].slot \in DOMAIN heap' =>
                     Classify(heap'[modalContext[1].slot], registeredSlot', FALSE)
                        = "registered"
                /\ ( /\ loads = {} /\ ~gridHidden
                     /\ InRepository(slotsMap, modalContext[1].slot)
                     /\ heap[modalContext[1].slot].TimeFrom.d = datePicker )
                     => \E c \in gridCells' :
                           c.obj = modalContext[1].slot /\ c.cls = "registered"
        /\ loads = {} /\ loads' = {}
             => /\ \A o \in DOMAIN heap \cap DOMAIN heap' :
                     Classify(heap[o], registeredSlot, FALSE) = "registered"
                       => Classify(heap'[o], registeredSlot', FALSE) = "registered"
                /\ \A c \in gridCells : c.cls = "registered" => c \in gridCells'
        /\ \A L \in loads :
             ~L.acted /\ Settles(L)
               => /\ \A c \in gridCells' : c.row.d = L.date => c.cls # "registered"
                  /\ \A o \in DOMAIN heap' :
                       InRepository(slotsMap', o) /\ heap'[o].TimeFrom.d = L.date
                         => Classify(heap'[o], registeredSlot', FALSE) # "registered" ]_vars


\* a clearGrid that leaves the children in place
clearGrid_Keeps(dom) == dom

\* clearGrid: the children of #gridHeader and #gridBody are dropped
clearGrid(dom) == EmptyBag

\* renderGrid acting on the document: dom is the bag of slot elements under
\* #gridBody, hidden is #gridWrap.hidden
RenderDom(dom, dateStr, res, sm, h, reg, trust) ==
    LET g == renderGrid(dateStr, res, sm, h, reg, trust)
    IN [dom |-> clearGrid(dom) (+) SetToBag(g.cells), hidden |-> g.hidden]

\* C27: after every step that renders, rendering the state it leaves twice in
\* a row, for either date, gives the presentation the first of the two gave
\* (same slot elements, each once, same classes, same visibility), whatever
\* the grid held before; and the step leaves resources, repository and
\* Tracker as its render read them: rendering the state it leaves gives the
\* grid it left.
C27_RenderIdempotent ==
    [][ Renders =>
        /\ \A d \in Dates :
             LET one == RenderDom(SetToBag(gridCells), d, resources', slotsMap', heap',
                                  registeredSlot', RESPECT_SERVER_REGISTERED)
                 two == RenderDom(one.dom, d, resources', slotsMap', heap',
                                  registeredSlot', RESPECT_SERVER_REGISTERED)
             IN two = one
        /\ \E d \in Dates :
             LET g == RenderDom(SetToBag(gridCells), d, resources', slotsMap', heap',
                                registeredSlot', RESPECT_SERVER_REGISTERED)
             IN g.dom = SetToBag(gridCells') /\ g.hidden = gridHidden' ]_vars

\* the grid shows a registered, an available and a booked slot, and is what
\* a render of the current state for the picker's date gives
C27_Witness ==
    /\ \E c \in gridCells : c.cls = "registered"
    /\ \E c \in gridCells : c.cls = "available"
    /\ \E c \in gridCells : c.cls = "booked"
    /\ RenderDom(EmptyBag, datePicker, resources, slotsMap, heap, registeredSlot,
                 RESPECT_SERVER_REGISTERED)
          = [dom |-> SetToBag(gridCells), hidden |-> gridHidden]


(* ---------------- row generation ---------------- *)
\* the values CONFIG.SLOT_MIN_TIME / SLOT_MAX_TIME range over: MaxHours
\* hours from the configured first hour; CONFIG.SLOT_DURATION_MIN ranges
\* over 1..60
MaxHours == 2
HourRange == SLOT_MIN_TIME..(SLOT_MIN_TIME + MaxHours - 1)
StepRange == 1..60

\* timestamp a is earlier than timestamp b
Earlier(a, b) ==
    \/ a.d < b.d
    \/ a.d = b.d /\ a.h < b.h
    \/ a.d = b.d /\ a.h = b.h /\ a.m < b.m
    \/ a.d = b.d /\ a.h = b.h /\ a.m = b.m /\ a.s < b.s

\* the rows generateRowTimes gives for date d under the configuration
\* (startHour, endHour, stepMinutes) have the stated count, order and ends
RowsAsStated(d, startHour, endHour, stepMinutes) ==
    LET rows == HourLoop(d, startHour, endHour, stepMinutes)
    IN /\ Len(rows) * stepMinutes = ((endHour - startHour) + 1) * 60
       /\ \A i \in 1..(Len(rows) - 1) : Earlier(rows[i], rows[i + 1])
       /\ Len(rows) > 0
       /\ rows[1] = T(d, startHour, 0)
       /\ rows[Len(rows)] = T(d, endHour, 60 - stepMinutes)

\* C28: for every date the picker takes, all hours startHour <= endHour and
\* every stepMinutes in 1..60, generateRowTimes produces
\* ((endHour - startHour) + 1) * (60 / stepMinutes) timestamps, strictly
\* increasing, the first at startHour:00 and the last at
\* endHour:(60 - stepMinutes).
C28_RowGeneration ==
    \A startHour \in HourRange : \A endHour \in HourRange :
    \A stepMinutes \in StepRange :
        startHour <= endHour
          => RowsAsStated(datePicker, startHour, endHour, stepMinutes)


(* ---------------- empty state ---------------- *)
\* the slot markers on screen: those of the grid unless #gridWrap is hidden
\* (#noData is shown exactly when #gridWrap is hidden)
Drawn(cells, hidden) == IF hidden THEN {} ELSE cells

\* C29: when a load's resource request answers an empty list, the load ends
\* with the grid hidden and nothing on screen; a step that renders while the
\* resource list is empty leaves the grid hidden and without rows or
\* markers; and after every step, if the resource list is empty nothing is
\* on screen, and the grid is hidden unless the initial load is still in
\* flight.
C29_EmptyState ==
    [][ /\ \A L \in loads :
             ResourcesResponse(L, "empty")
               => /\ resources' = << >>
                  /\ gridHidden'
                  /\ L \notin loads'
                  /\ Drawn(gridCells', gridHidden') = {}
        /\ Renders /\ resources' = << >>
             => gridHidden' /\ gridCells' = {}
        /\ resources' = << >>
             => /\ Drawn(gridCells', gridHidden') = {}
                /\ (\A L \in loads' : L.id > 1) => gridHidden' ]_vars

\* a load has answered no resources, and after it a register confirm from a
\* dialog that was open rendered: the grid is hidden and empty
C29_Witness ==
    /\ resources = << >>
    /\ gridHidden
    /\ gridCells = {}
    /\ registeredSlot # << >>
    /\ alert = <<"Appointment registered (mock).">>


(* ---------------- View Current ---------------- *)
\* the registration "View Current" resolves: the dialog's old registration
\* if it has an id, else the Tracker's
CurrentOf(ctx, reg) ==
    IF ctx.old # << >> /\ ctx.old[1].Appoitment_Id # 0 THEN ctx.old ELSE reg

\* the repository holds, under resource rid, a slot with appointment id appId
Held(sm, h, rid, appId) ==
    \E o \in SeqToSet(SlotsOf(sm, rid)) : h[o].Appoitment_Id = appId

\* C30: "View Current" with an old registration that has an id: if the
\* repository holds a slot with that id under the old registration's
\* resource, the read-only view opens on it and no request is made; if not,
\* one request for that resource, date and id is made.  When the request is
\* answered the view shows the slot with that id if the answer has one, and
\* in no case a slot with another id: it shows that id or 'no details'.
C30_ViewCurrentById ==
    [][ /\ ( /\ ViewCurrent
             /\ CurrentOf(modalContext[1], registeredSlot) # << >>
             /\ CurrentOf(modalContext[1], registeredSlot)[1].Appoitment_Id # 0
             /\ CurrentOf(modalContext[1], registeredSlot)[1].Resource_Id # 0 )
             => LET cur == CurrentOf(modalContext[1], registeredSlot)[1]
                IN IF Held(slotsMap, heap, cur.Resource_Id, cur.Appoitment_Id)
                   THEN /\ view' # << >>
                        /\ ~view'[1].editable
                        /\ view'[1].shown = <<cur.Appoitment_Id>>
                        /\ details' = details
                   ELSE /\ view' = view
                        /\ details' = details \cup
                              {[date |-> datePicker, resourceId |-> cur.Resource_Id,
                                appId |-> cur.Appoitment_Id]}
        /\ \A q \in details : \A outcome \in SlotOutcomes :
             DetailsResponse(q, outcome)
               => /\ view' # << >>
                  /\ view'[1].shown \in {<< >>, <<q.appId>>}
                  /\ (\E i \in 1..Len(SlotsData(outcome, CUSTOMER_ID, q.date, q.resourceId)) :
                        SlotsData(outcome, CUSTOMER_ID, q.date, q.resourceId)[i].Appoitment_Id
                          = q.appId)
                       /\ outcome # "malformed"
                       => view'[1].shown = <<q.appId>> ]_vars


(* ---------------- overlapping loads ---------------- *)
\* C31: loads in flight are not cancelled: a load started by the Load button
\* or a date change leaves every call in flight as it was; a slot list that
\* arrives for a call that is no longer the newest is still stored in the
\* repository under its resource, and the join of such a call still renders
\* the grid for that call's date.
C31_LoadsNotCancelled ==
    [][ /\ \A L \in loads :
             (LoadButton \/ \E d \in Dates : DateNav(d)) => L \in loads'
        /\ \A L \in loads : \A r \in L.pending :
             /\ SlotsResponse(L, r, "ok") /\ L.id < nLoads
                  => /\ r \in DOMAIN slotsMap'
                     /\ Len(slotsMap'[r]) = Len(ServerSlots(L.date, r))
                     /\ \A o \in SeqToSet(slotsMap'[r]) :
                           LoadOf(o) = L.id /\ heap'[o].TimeFrom.d = L.date
             /\ Joins(L, r, "ok") /\ L.id < nLoads
                  => /\ gridHidden' = (resources = << >>)
                     /\ \A c \in gridCells' : c.row.d = L.date ]_vars

\* two loads for different dates overlapped and both have ended: the
\* repository holds a list the later load stored (so the later load had reset
\* the repository) next to a list of the earlier load (stored after that
\* reset, or it would be gone), and the grid on screen is the earlier load's
\* render for its date while the picker shows the later date (had the later
\* load rendered last, the grid would show the picker's date)
C31_Witness ==
    /\ loads = {} /\ nLoads = 2 /\ datePicker # Today
    /\ registeredSlot = << >>
    /\ ~gridHidden
    /\ \E k \in DOMAIN slotsMap : \E o \in SeqToSet(slotsMap[k]) : LoadOf(o) = 2
    /\ \E c \in gridCells :
          LoadOf(c.obj) = 1 /\ c.row.d = Today /\ InRepository(slotsMap, c.obj)


(* ---------------- views of the update dialog ---------------- *)
\* C32: of the update dialog's buttons only "Go to View (finalize)" leads to
\* the editable view: "View Current" and "View Updating" open a read-only
\* view (or none yet), and while the view is read-only no mutation request
\* is issued and the Tracker does not change.
C32_ViewActionsReadOnly ==
    [][ /\ ViewCurrent \/ ViewUpdating
             => view' = view \/ (view' # << >> /\ ~view'[1].editable)
        /\ \A q \in details : \A outcome \in SlotOutcomes :
             DetailsResponse(q, outcome) => view' # << >> /\ ~view'[1].editable
        /\ view # << >> /\ ~view[1].editable /\ view' = view
             => /\ Len(posts') <= Len(posts)
                /\ posts = << >> /\ loads = loads' => registeredSlot' = registeredSlot ]_vars


(* ---------------- after a successful submit ---------------- *)
\* slot object o is as a fetch callback made it from the server's answer
Fetched(h, o) ==
    \E d \in Dates : \E r \in SeqToSet(ServerResources) :
      /\ o \in SeqToSet(NewObjs(LoadOf(o), r, ServerSlots(d, r)))
      /\ h[o] = Alloc(<< >>, LoadOf(o), r, ServerSlots(d, r))[o]

\* C33: the success branch of a submit leaves a new call of loadAndRender
\* for the picker's date in flight, awaiting its resources, with the Tracker
\* set to the submitted slot.  With RESPECT_SERVER_REGISTERED off, when that
\* call joins (so it has at least one resource) as the newest call, and the
\* user has not registered or updated since, the Tracker is absent, every
\* slot of the repository is as it was fetched from the server, and no cell
\* is 'registered'.
C33_ReloadClearsRegistration ==
    [][ /\ \A i \in 1..Len(posts) :
             PostResponse(i, "success", "")
               => /\ Reload(nLoads + 1, datePicker) \in loads'
                  /\ nLoads' = nLoads + 1
                  /\ registeredSlot' # << >>
                  /\ registeredSlot'[1].Appoitment_Id = heap[posts[i].obj].Appoitment_Id
        /\ \A L \in loads : \A r \in L.pending : \A outcome \in SlotOutcomes :
             ~RESPECT_SERVER_REGISTERED /\ L.reload /\ L.id = nLoads /\ Joins(L, r, outcome)
               => /\ registeredSlot' = << >>
                  /\ \A k \in DOMAIN slotsMap' : \A o \in SeqToSet(slotsMap'[k]) :
                       Fetched(heap', o)
                  /\ \A c \in gridCells' : c.cls # "registered" ]_vars

\* the reload of a successful update has rendered: the dialog's new slot
\* carries the submitted status label, the Tracker is absent and the grid
\* shows the reloaded slots, none of them 'registered'
C33_Witness ==
    /\ loads = {} /\ nLoads = 2 /\ posts = << >> /\ nPost = 1
    /\ view = << >>
    /\ modalContext # << >>
    /\ heap[modalContext[1].slot].Description_En \in {"Accepted", "Rejected", "Pending"}
    /\ registeredSlot = << >>
    /\ ~gridHidden /\ gridCells # {}
    /\ AllFrom(slotsMap, heap, 2, datePicker)
    /\ \A c \in gridCells : c.cls # "registered"


\* C34: a successful response to a submit leaves the workflow Idle: the
\* editable view is closed and no dialog context (old registration, new slot)
\* remains.
C34_IdleAfterSuccess ==
    [][ \A i \in 1..Len(posts) :
          PostResponse(i, "success", "") => view' = << >> /\ modalContext' = << >> ]_vars


(* ---------------- renderer and click handler ---------------- *)
\* C35: in every state, for every slot of the repository, the renderer's
\* test for 'registered' and onSlotClick's test for 'already registered'
\* give the same answer.
C35_RendererAndClickAgree ==
    \A o \in DOMAIN heap :
        InRepository(slotsMap, o)
          => (RenderIsRegistered(heap[o], registeredSlot, RESPECT_SERVER_REGISTERED)
                <=> ClickIsRegistered(heap[o], registeredSlot, RESPECT_SERVER_REGISTERED))


(* ---------------- the Tracker's appointment id ---------------- *)
\* C36: with RESPECT_SERVER_REGISTERED off the Tracker, whenever it holds a
\* registration, holds one with an appointment id: it starts absent; a
\* register confirm gives it a newly made id; a mutation request is only
\* issued for a slot that has an id, and a successful response makes the
\* Tracker name that slot's id; no other step changes the Tracker's id.
C36_TrackerIdNonNull ==
    /\ ~RESPECT_SERVER_REGISTERED => registeredSlot = << >>
    /\ [][ ~RESPECT_SERVER_REGISTERED =>
           /\ registeredSlot' # << >> => registeredSlot'[1].Appoitment_Id # 0
           /\ handleModalConfirm => registeredSlot'[1].Appoitment_Id > Epoch
           /\ \A i \in 1..Len(posts') : heap'[posts'[i].obj].Appoitment_Id # 0
           /\ \A i \in 1..Len(posts) :
                PostResponse(i, "success", "")
                  => registeredSlot'[1].Appoitment_Id = heap[posts[i].obj].Appoitment_Id
           /\ ( /\ registeredSlot' # << >>
                /\ ~handleModalConfirm
                /\ \A i \in 1..Len(posts) : ~PostResponse(i, "success", "") )
                => registeredSlot' = registeredSlot ]_vars

\* the Tracker names a server-given id: it was set by a successful update
C36_Witness ==
    /\ ~RESPECT_SERVER_REGISTERED
    /\ registeredSlot # << >>
    /\ registeredSlot[1].Appoitment_Id # 0
    /\ registeredSlot[1].Appoitment_Id < Epoch


(* ---------------- the Tracker and the repository ---------------- *)
\* C37: the Tracker never dangles: whenever the Tracker holds a registration,
\* the Slot Repository holds, under the registration's resource, a slot whose
\* appointment id is the Tracker's.
C37_TrackerNeverDangles ==
    registeredSlot # << >>
      => Held(slotsMap, heap, registeredSlot[1].Resource_Id, registeredSlot[1].Appoitment_Id)


(* ---------------- availability and the workflow ---------------- *)
\* C38: availability does not guard the workflow: the dialog a slot click
\* opens is the same whatever the slot's status and label are; a click on a
\* slot drawn 'booked' opens the register dialog when the Tracker is absent
\* and the update dialog otherwise; and a register confirm on a slot that is
\* classified 'booked' makes that slot the session's registration.
C38_AvailabilityDoesNotGuard ==
    [][ /\ \A c \in gridCells :
             SlotClick(c) =>
               /\ \A st \in StatusCodes : \A lbl \in Labels :
                    modalContext' = onSlotClick(c.obj,
                                       [heap[c.obj] EXCEPT !.Status = st, !.Description_En = lbl],
                                       c.res, registeredSlot, RESPECT_SERVER_REGISTERED)
               /\ ( /\ c.cls = "booked"
                    /\ ~ClickIsRegistered(heap[c.obj], registeredSlot, RESPECT_SERVER_REGISTERED) )
                    => /\ modalContext' # << >>
                       /\ modalContext'[1].slot = c.obj
                       /\ modalContext'[1].mode = IF registeredSlot = << >> THEN "register"
                                                  ELSE "update"
        /\ ( /\ handleModalConfirm
             /\ Classify(heap[modalContext[1].slot], registeredSlot,
                          RESPECT_SERVER_REGISTERED) = "booked" )
             => /\ registeredSlot' # << >>
                /\ registeredSlot'[1].TimeFrom = heap[modalContext[1].slot].TimeFrom
                /\ registeredSlot'[1].Resource_Id = modalContext[1].resource
                /\ InRepository(slotsMap, modalContext[1].slot)
                     => heap'[modalContext[1].slot].Appoitment_Id
                          = registeredSlot'[1].Appoitment_Id ]_vars

\* a slot whose status is not available is the session's registration, made
\* by a register confirm
C38_Witness ==
    /\ registeredSlot # << >>
    /\ registeredSlot[1].Appoitment_Id > Epoch
    /\ \E r \in DOMAIN slotsMap : \E o \in SeqToSet(slotsMap[r]) :
         /\ heap[o].Appoitment_Id = registeredSlot[1].Appoitment_Id
         /\ ~(heap[o].Status = 1 \/ LabelAvailable(heap[o].Description_En))


(* ---------------- the id a mutation request carries ---------------- *)
\* C39: every mutation request carries an appointment id that was received
\* from the server: no request in flight carries an id that register confirm
\* made from the clock.
C39_RequestsCarryServerIds ==
    \A i \in 1..Len(posts) : posts[i].body.Appointment_Id <= Epoch


(* ---------------- requests in flight ---------------- *)
\* C40: at most one mutation request is in flight at any time: while a
\* submit's request has not settled, the editable view issues no second one.
C40_OneRequestInFlight ==
    /\ Len(posts) <= 1
    /\ [][ \A st \in StatusInputs : \A n \in NotesInputs :
             Submit(st, n) /\ posts # << >> => posts' = posts ]_vars

====
